---- MODULE Spec2Model ----
(***************************************************************************)
(* Chunker.chunk of backend/Ingestion/chunker.py as a state machine.       *)
(*                                                                         *)
(* A Python str is a sequence of one-character strings.  "nbsp" stands for *)
(* U+00A0 and "\n" for a line break.  A call of Chunker.chunk runs through *)
(* pc = "group" (lines 62-92), "build" (94-130), "pages" (one step per     *)
(* iteration of the loop of line 132) and ends "returned" (182) or         *)
(* "raised" (an exception left the function).                              *)
(***************************************************************************)
EXTENDS Integers, Sequences, FiniteSets, TLC

(***************************************************************************)
(* Bounds of the model.                                                    *)
(***************************************************************************)
MaxBlocks == 2
MaxSize == 2

Pages == {0, 1, 2}

(***************************************************************************)
(* Characters and strings.                                                 *)
(***************************************************************************)
NBSP == "nbsp"
\* what the pattern \s and str.strip() treat as whitespace, among the model's characters
IsSpace(c) == c \in {" ", "\n", NBSP}

RECURSIVE DropSpaces(_)
DropSpaces(s) ==
    IF s = <<>> THEN <<>>
    ELSE IF IsSpace(Head(s)) THEN DropSpaces(Tail(s)) ELSE s

\* _WS.sub(" ", text): every maximal run of whitespace becomes one space
RECURSIVE CollapseWs(_)
CollapseWs(s) ==
    IF s = <<>> THEN <<>>
    ELSE IF IsSpace(Head(s)) THEN <<" ">> \o CollapseWs(DropSpaces(s))
    ELSE <<Head(s)>> \o CollapseWs(Tail(s))

RECURSIVE DropTrailingSpaces(_)
DropTrailingSpaces(s) ==
    IF s = <<>> THEN <<>>
    ELSE IF IsSpace(s[Len(s)]) THEN DropTrailingSpaces(SubSeq(s, 1, Len(s) - 1)) ELSE s

\* str.strip()
Strip(s) == DropTrailingSpaces(DropSpaces(s))

\* text.replace(U+00A0, " ")
ReplaceNbsp(s) == [i \in 1..Len(s) |-> IF s[i] = NBSP THEN " " ELSE s[i]]

NormalizeNoStrip(text) == CollapseWs(ReplaceNbsp(text))

\* _normalize
Normalize(text) == Strip(CollapseWs(ReplaceNbsp(text)))

\* sep.join(parts)
RECURSIVE Join(_, _)
Join(parts, sep) ==
    IF parts = <<>> THEN <<>>
    ELSE IF Len(parts) = 1 THEN parts[1]
    ELSE parts[1] \o sep \o Join(Tail(parts), sep)

\* str(n) for n >= 0
Digit(d) == <<"0", "1", "2", "3", "4", "5", "6", "7", "8", "9">>[d + 1]

RECURSIVE Str(_)
Str(n) == IF n < 10 THEN <<Digit(n)>> ELSE Str(n \div 10) \o <<Digit(n % 10)>>

(***************************************************************************)
(* RecursiveCharacterTextSplitter(chunk_size, chunk_overlap, separators),  *)
(* with the library's defaults keep_separator = True, strip_whitespace =   *)
(* True, length_function = len.                                            *)
(***************************************************************************)
Separators == << <<"\n", "\n">>, <<"\n">>, <<".", " ">>, <<" ">>, <<>> >>

MatchAt(text, sep, i) ==
    /\ i + Len(sep) - 1 <= Len(text)
    /\ SubSeq(text, i, i + Len(sep) - 1) = sep

\* position of the first occurrence of sep in text at or after from; 0 when there is none
FirstMatch(text, sep, from) ==
    LET hits == {i \in from..Len(text) : MatchAt(text, sep, i)}
    IN IF hits = {} THEN 0 ELSE CHOOSE i \in hits : \A j \in hits : i <= j

\* re.split with the separator kept at the head of the piece that follows it
RECURSIVE SplitKeepFrom(_, _, _)
SplitKeepFrom(text, sep, from) ==
    LET m == FirstMatch(text, sep, from)
    IN IF m = 0 THEN <<text>>
       ELSE <<SubSeq(text, 1, m - 1)>>
                \o SplitKeepFrom(SubSeq(text, m, Len(text)), sep, Len(sep) + 1)

Unsplit(text, sep) == <<text>>

\* _split_text_with_regex, empty pieces left out
SplitTextWithRegex(text, sep) ==
    LET raw == IF sep = <<>> THEN [i \in 1..Len(text) |-> <<text[i]>>]
               ELSE SplitKeepFrom(text, sep, 1)
    IN SelectSeq(raw, LAMBDA s : s # <<>>)

\* _join_docs: <<>> stands for its None
JoinDocs(docs, sep) == Strip(Join(docs, sep))

SepLen(cur, sep, k) == IF Len(cur) > k THEN Len(sep) ELSE 0

\* the while loop of _merge_splits: drop leading splits until the overlap fits
RECURSIVE PopFront(_, _, _, _, _, _)
PopFront(cur, total, len, sep, size, overlap) ==
    IF total > overlap \/ (total + len + SepLen(cur, sep, 0) > size /\ total > 0)
    THEN PopFront(Tail(cur), total - (Len(Head(cur)) + SepLen(cur, sep, 1)),
                  len, sep, size, overlap)
    ELSE <<cur, total>>

RECURSIVE MergeLoop(_, _, _, _, _, _, _)
MergeLoop(splits, cur, total, docs, sep, size, overlap) ==
    IF splits = <<>>
    THEN LET doc == JoinDocs(cur, sep)
         IN IF doc = <<>> THEN docs ELSE Append(docs, doc)
    ELSE LET d == Head(splits)
             len == Len(d)
             flush == total + len + SepLen(cur, sep, 0) > size /\ Len(cur) > 0
             doc == JoinDocs(cur, sep)
             docs1 == IF flush /\ doc # <<>> THEN Append(docs, doc) ELSE docs
             popped == IF flush THEN PopFront(cur, total, len, sep, size, overlap)
                       ELSE <<cur, total>>
             cur1 == Append(popped[1], d)
             total1 == popped[2] + len + SepLen(cur1, sep, 1)
         IN MergeLoop(Tail(splits), cur1, total1, docs1, sep, size, overlap)

\* _merge_splits
MergeSplits(splits, sep, size, overlap) ==
    MergeLoop(splits, <<>>, 0, <<>>, sep, size, overlap)

\* the first separator that is "" or occurs in the text
PickSeparator(text, separators) ==
    LET ok(i) == separators[i] = <<>> \/ FirstMatch(text, separators[i], 1) # 0
    IN CHOOSE i \in 1..Len(separators) : ok(i) /\ \A j \in 1..(i - 1) : ~ok(j)

RECURSIVE SplitText(_, _, _, _)
RECURSIVE SplitLoop(_, _, _, _, _, _)

\* the for loop of _split_text over the splits
SplitLoop(splits, good, final, new_separators, size, overlap) ==
    LET merged == IF good # <<>> THEN MergeSplits(good, <<>>, size, overlap) ELSE <<>>
    IN IF splits = <<>> THEN final \o merged
       ELSE LET s == Head(splits)
            IN IF Len(s) < size
               THEN SplitLoop(Tail(splits), Append(good, s), final,
                              new_separators, size, overlap)
               ELSE LET more == IF new_separators = <<>> THEN <<s>>
                                ELSE SplitText(s, new_separators, size, overlap)
                    IN SplitLoop(Tail(splits), <<>>, final \o merged \o more,
                                 new_separators, size, overlap)

\* _split_text
SplitText(text, separators, size, overlap) ==
    LET i == PickSeparator(text, separators)
        separator == separators[i]
        new_separators == IF separator = <<>> THEN <<>>
                          ELSE SubSeq(separators, i + 1, Len(separators))
    IN SplitLoop(SplitTextWithRegex(text, separator), <<>>, <<>>,
                 new_separators, size, overlap)

\* split_text of the recursive strategy
RecursiveSplit(text, size, overlap) == SplitText(text, Separators, size, overlap)

(***************************************************************************)
(* SemanticChunker: sentences are cut at whitespace that follows ".", "?"  *)
(* or "!", and consecutive sentences are joined with " " between the       *)
(* breakpoints the embedding distances give.  The distances come from the  *)
(* embedding model, so every set of breakpoints is possible.               *)
(***************************************************************************)
SentenceEnd(text) ==
    LET hits == {i \in 2..Len(text) : IsSpace(text[i]) /\ text[i - 1] \in {".", "?", "!"}}
    IN IF hits = {} THEN 0 ELSE CHOOSE i \in hits : \A j \in hits : i <= j

RECURSIVE Sentences(_)
Sentences(text) ==
    LET i == SentenceEnd(text)
    IN IF i = 0 THEN <<text>>
       ELSE <<SubSeq(text, 1, i - 1)>> \o Sentences(DropSpaces(SubSeq(text, i, Len(text))))

RECURSIVE Groups(_, _, _, _)
Groups(sentences, breaks, i, cur) ==
    IF i > Len(sentences)
    THEN IF cur = <<>> THEN <<>> ELSE <<Join(cur, <<" ">>)>>
    ELSE LET cur1 == Append(cur, sentences[i])
         IN IF i \in breaks
            THEN <<Join(cur1, <<" ">>)>> \o Groups(sentences, breaks, i + 1, <<>>)
            ELSE Groups(sentences, breaks, i + 1, cur1)

\* the page_content of the documents of sem.create_documents([text])
SemanticDocs(text, breaks) ==
    LET sentences == Sentences(text)
    IN IF Len(sentences) = 1 THEN sentences ELSE Groups(sentences, breaks, 1, <<>>)

\* split_text of the semantic strategy: normalized, empty documents left out
SemanticSplit(text, breaks) ==
    LET docs == SemanticDocs(text, breaks)
        norm == [i \in 1..Len(docs) |-> Normalize(docs[i])]
    IN SelectSeq(norm, LAMBDA d : d # <<>>)

(***************************************************************************)
(* Inputs of the model.                                                    *)
(***************************************************************************)
SeqsUpTo(S, n) == UNION {[1..k -> S] : k \in 0..n}

\* one text that needs every step of _normalize, and one that is only whitespace
Texts == {<<"a", ".", NBSP, "\n", "b">>, <<" ", NBSP>>}

\* section = None is <<>>: None and "" take the same branch of "if sec"
Sections == {<<>>, <<"A">>}

\* a block with a blank text is skipped before its section is read (lines 142-146),
\* so the blank blocks are taken with section = None only
TextBlocks ==
    {b \in [text : Texts, page : Pages, section : Sections] :
        Normalize(b.text) = <<>> => b.section = <<>>}

SessionId == <<"s", "1">>
DocumentId == <<"d", "1">>

ImageAsset(i, p) ==
    [image_url |-> <<"i", "m", "g">> \o Str(i), session_id |-> SessionId,
     document_id |-> DocumentId, page |-> p,
     image_path |-> <<"/">> \o Str(i), format |-> "png"]

\* the pages of the images of a document, in input order: no image, images of one
\* page, of two pages in either order, and images that are on no page
ImagePlacements == {<<>>, <<1>>, <<1, 1>>, <<2, 1>>, <<0>>, <<0, 2>>}

ImageLists == {[i \in 1..Len(f) |-> ImageAsset(i, f[i])] : f \in ImagePlacements}

\* the blocks of the documents whose sections are looked at: two labels, on blank
\* and on non-blank blocks
SectionLabels == {<<>>, <<"A">>, <<"B">>}

SectionBlocks == [text : Texts, page : {1, 2}, section : SectionLabels]

Strategies == {"recursive", "semantic", "bogus"}

Args ==
    [session_id : {SessionId}, document_id : {DocumentId}, strategy : Strategies,
     chunk_size : 1..MaxSize, chunk_overlap : 0..MaxSize]

(***************************************************************************)
(* Chunker.chunk: the helpers of its steps.                                *)
(***************************************************************************)
RECURSIVE SortedSeq(_)
SortedSeq(S) ==
    IF S = {} THEN <<>>
    ELSE LET m == CHOOSE x \in S : \A y \in S : x <= y
         IN <<m>> \o SortedSeq(S \ {m})

AnyPages(items) == {items[i].page : i \in DOMAIN items}

\* the keys of the grouping of lines 66-92: page <= 0 is skipped
PlacedPages(items) == {items[i].page : i \in DOMAIN items} \cap {p \in Pages : p > 0}

\* the record appended to images_by_page[page]
ImageRecord(image) ==
    [image_id |-> image.image_url, session_id |-> image.session_id,
     document_id |-> image.document_id, page |-> image.page,
     image_path |-> image.image_path]

ImagesByPage(images) ==
    [p \in PlacedPages(images) |->
        LET mine == SelectSeq(images, LAMBDA im : im.page = p)
        IN [i \in 1..Len(mine) |-> ImageRecord(mine[i])]]

AllBlocksOnEveryPage(text_blocks) ==
    [p \in PlacedPages(text_blocks) |-> SelectSeq(text_blocks, LAMBDA tb : tb.page > 0)]

BlocksByPage(text_blocks) ==
    [p \in PlacedPages(text_blocks) |-> SelectSeq(text_blocks, LAMBDA tb : tb.page = p)]

\* images_by_page.get(page, [])
ImageRefs(by_page, page) == IF page \in DOMAIN by_page THEN by_page[page] ELSE <<>>

\* the keys of a dict in the order of their insertion
RECURSIVE InsertionOrder(_, _)
InsertionOrder(text_blocks, seen) ==
    IF text_blocks = <<>> THEN <<>>
    ELSE LET p == Head(text_blocks).page
         IN IF p > 0 /\ p \notin seen
            THEN <<p>> \o InsertionOrder(Tail(text_blocks), seen \cup {p})
            ELSE InsertionOrder(Tail(text_blocks), seen)

UnsortedPages(text_blocks) == InsertionOrder(text_blocks, {})

\* sorted(blocks_by_page.keys())
PageOrder(text_blocks) == SortedSeq(PlacedPages(text_blocks))

RECURSIVE MarkEachBlock(_, _)
MarkEachBlock(page_blocks, last_section) ==
    IF page_blocks = <<>> THEN <<>>
    ELSE LET b == Head(page_blocks)
             txt == Normalize(b.text)
             sec == IF b.section # <<>> THEN Normalize(b.section) ELSE <<>>
         IN IF txt = <<>> THEN MarkEachBlock(Tail(page_blocks), last_section)
            ELSE (IF sec # <<>> THEN <<(<<"#", "#", " ">> \o sec)>> ELSE <<>>)
                   \o <<txt>> \o MarkEachBlock(Tail(page_blocks), sec)

\* the loop of lines 141-152: the parts of one page
RECURSIVE PageParts(_, _)
PageParts(page_blocks, last_section) ==
    IF page_blocks = <<>> THEN <<>>
    ELSE LET b == Head(page_blocks)
             txt == Normalize(b.text)
             sec == IF b.section # <<>> THEN Normalize(b.section) ELSE <<>>
             mark == sec # <<>> /\ sec # last_section
         IN IF txt = <<>> THEN PageParts(Tail(page_blocks), last_section)
            ELSE (IF mark THEN <<(<<"#", "#", " ">> \o sec)>> ELSE <<>>)
                   \o <<txt>>
                   \o PageParts(Tail(page_blocks), IF mark THEN sec ELSE last_section)

RawPageText(page_blocks) ==
    Join([i \in 1..Len(page_blocks) |-> page_blocks[i].text], <<"\n", "\n">>)

\* page_text of one page
PageText(page_blocks) == Strip(Join(PageParts(page_blocks, <<>>), <<"\n", "\n">>))

\* hashlib.sha256(raw).hexdigest(): collision-free, so it is kept as its preimage
Sha256Hex(raw) == <<"sha256">> \o raw

ChunkIdWithoutPage(session_id, document_id, page, chunk_index) ==
    Sha256Hex(session_id \o <<"|">> \o document_id \o <<"|">> \o Str(chunk_index))

\* _make_chunk_id
MakeChunkId(session_id, document_id, page, chunk_index) ==
    Sha256Hex(session_id \o <<"|">> \o document_id \o <<"|">> \o Str(page)
                \o <<"|">> \o Str(chunk_index))

\* ChunkMetadata declares image_refs: List[str]; the chunker passes a list of dicts,
\* which pydantic rejects unless the list is empty
ImageRefsAccepted(image_refs) == image_refs = <<>>

\* the loop over enumerate(pieces): the chunks of the pieces that are kept
NewChunks(pieces, page, image_refs, a) ==
    LET all == [i \in 1..Len(pieces) |->
                  [chunk_id |-> MakeChunkId(a.session_id, a.document_id, page, i - 1),
                   session_id |-> a.session_id, document_id |-> a.document_id,
                   page |-> page, chunk_index |-> i - 1,
                   text |-> Normalize(pieces[i]), image_refs |-> image_refs]]
    IN SelectSeq(all, LAMBDA c : c.text # <<>>)

DefaultToSemantic(strategy) ==
    IF strategy = "recursive" THEN "recursive" ELSE "semantic"

\* the if / elif / else of lines 95-128
SelectSplitter(strategy) ==
    IF strategy = "recursive" THEN "recursive"
    ELSE IF strategy = "semantic" THEN "semantic"
    ELSE "invalid"

\* TextSplitter.__init__ raises ValueError when chunk_overlap > chunk_size
SplitterConfigAccepted(chunk_size, chunk_overlap) == chunk_overlap <= chunk_size

StaleList(old) == old

\* chunks = [] of line 130
EmptyList(old) == <<>>

ReturnPartial(built) == [pc |-> "returned", returned |-> TRUE, value |-> built]

\* an exception leaves chunk(): nothing is returned
Raise(built) == [pc |-> "raised", returned |-> FALSE, value |-> <<>>]

(***************************************************************************)
(* The state.                                                              *)
(***************************************************************************)
VARIABLES
    document_content,   \* the argument of the calls
    args,               \* session_id, document_id and the keyword arguments of the call
    pc,                 \* where the call is
    images_by_page,     \* local
    blocks_by_page,     \* local
    splitter,           \* which split_text was built: "none", "recursive", "semantic"
    pages,              \* the pages the loop of line 132 has still to visit
    chunks,             \* local
    result,             \* what the call returned
    error,              \* the exception that left the call
    splitLog,           \* the calls of split_text: page, text, pieces
    remembered,         \* an earlier returned call, kept to compare a later one with
    environment,        \* the file given to the pipeline and what its collaborators do
    run,                \* where a run of the pipeline is and how it ended
    sessions,           \* SessionManager._sessions
    user_sessions,      \* SessionManager._user_sessions
    now,                \* datetime.utcnow(), in hours
    documents,          \* DocumentManager._session_documents: the number of document
                        \* ids each session id has
    last,               \* the last call of the services and what it returned
    issued,             \* how many session ids uuid.uuid4() has given
    suspended,          \* a second call of chunk() that waits while this one runs
    registry,           \* the points of the Qdrant collection and the last store_chunks
    uploads             \* the calls of process_upload that are going on

pipelineVars == <<environment, run>>

serviceVars == <<sessions, user_sessions, now, documents, last, issued>>

storeVars == <<registry, uploads>>

restVars == <<pipelineVars, serviceVars, suspended, storeVars>>

vars == <<document_content, args, pc, images_by_page, blocks_by_page, splitter,
          pages, chunks, result, error, splitLog, remembered, restVars>>

NoResult == [returned |-> FALSE, value |-> <<>>]
NothingRemembered == [set |-> FALSE, args |-> <<>>, ids |-> <<>>, texts |-> <<>>]

\* no pipeline runs
PipelineIdle ==
    /\ environment = [exists |-> FALSE, suffix |-> "", extracted |-> "nothing",
                      chunking |-> "nothing", embedding |-> "vectors", storing |-> FALSE]
    /\ run = [pc |-> "idle", raised |-> FALSE, value |-> "None", calls |-> <<>>]

\* SessionManager.__init__, DocumentManager.__init__
ServicesInit ==
    /\ sessions = <<>>
    /\ user_sessions = <<>>
    /\ now = 0
    /\ documents = <<>>
    /\ last = [op |-> "none"]
    /\ issued = 0

\* QdrantRegistry over an empty collection; no process_upload is going on
StoreIdle ==
    /\ registry = [points |-> {}, call |-> [op |-> "none"]]
    /\ uploads = <<>>

\* there is no second call
NoSecondCall == [active |-> 0, frame |-> <<>>, given |-> <<>>]

Entry(a) ==
    /\ PipelineIdle
    /\ ServicesInit
    /\ StoreIdle
    /\ suspended = NoSecondCall
    /\ args = a
    /\ pc = "group"
    /\ images_by_page = <<>>
    /\ blocks_by_page = <<>>
    /\ splitter = "none"
    /\ pages = <<>>
    /\ chunks = <<>>
    /\ result = NoResult
    /\ error = "none"
    /\ splitLog = <<>>
    /\ remembered = NothingRemembered

Init ==
    /\ document_content \in [text_blocks : SeqsUpTo(TextBlocks, MaxBlocks), images : ImageLists]
    /\ \E a \in Args : Entry(a)

\* the calls are repeated on a document without images whose blocks are on pages
\* and carry no section
InitRepeat ==
    /\ document_content \in
          [text_blocks : SeqsUpTo({b \in TextBlocks : b.page >= 1 /\ b.section = <<>>},
                                  MaxBlocks),
           images : {<<>>}]
    /\ \E a \in Args : Entry(a)

\* a call on a document without images whose blocks carry any of the section labels
InitSections ==
    /\ document_content \in
          [text_blocks : SeqsUpTo(SectionBlocks, MaxBlocks), images : {<<>>}]
    /\ \E a \in Args : Entry(a)

(***************************************************************************)
(* The steps of one call.                                                  *)
(***************************************************************************)
\* lines 62-92
GroupInputs ==
    /\ pc = "group"
    /\ images_by_page' = ImagesByPage(document_content.images)
    /\ blocks_by_page' = BlocksByPage(document_content.text_blocks)
    /\ pc' = "build"
    /\ UNCHANGED <<document_content, args, splitter, pages, chunks, result, error,
                   splitLog, remembered, restVars>>

\* the exception e leaves the call
Fail(e) ==
    LET r == Raise(chunks)
    IN /\ pc' = r.pc
       /\ result' = [returned |-> r.returned, value |-> r.value]
       /\ error' = e

\* the splitter is built; line 130; the loop of line 132 starts
Built(kind) ==
    /\ splitter' = kind
    /\ chunks' = EmptyList(chunks)
    /\ pages' = PageOrder(document_content.text_blocks)
    /\ pc' = "pages"
    /\ UNCHANGED <<result, error>>

\* lines 94-130
BuildSplitter ==
    /\ pc = "build"
    /\ UNCHANGED <<document_content, args, images_by_page, blocks_by_page, splitLog,
                   remembered, restVars>>
    /\ LET kind == SelectSplitter(args.strategy)
       IN \/ /\ kind = "recursive"
             /\ SplitterConfigAccepted(args.chunk_size, args.chunk_overlap)
             /\ Built("recursive")
          \/ /\ kind = "recursive"
             /\ ~SplitterConfigAccepted(args.chunk_size, args.chunk_overlap)
             /\ Fail("ValueError")
             /\ UNCHANGED <<splitter, chunks, pages>>
          \/ /\ kind = "semantic"
             /\ Built("semantic")
          \/ /\ kind = "semantic"     \* the import or the embedding model fails
             /\ Fail("CollaboratorError")
             /\ UNCHANGED <<splitter, chunks, pages>>
          \/ /\ kind = "invalid"
             /\ Fail("ValueError")
             /\ UNCHANGED <<splitter, chunks, pages>>

\* what split_text(page_text) may return
SplitResults(kind, text, a) ==
    IF kind = "recursive" THEN {RecursiveSplit(text, a.chunk_size, a.chunk_overlap)}
    ELSE {SemanticSplit(text, breaks) : breaks \in SUBSET (1..(Len(Sentences(text)) - 1))}

\* lines 160-180
Emit(page, page_text, pieces) ==
    LET image_refs == ImageRefs(images_by_page, page)
        new == NewChunks(pieces, page, image_refs, args)
    IN /\ splitLog' = Append(splitLog, [page |-> page, text |-> page_text, pieces |-> pieces])
       /\ IF new # <<>> /\ ~ImageRefsAccepted(image_refs)
          THEN /\ Fail("ValidationError")
               /\ UNCHANGED <<pages, chunks>>
          ELSE /\ chunks' = chunks \o new
               /\ pages' = Tail(pages)
               /\ UNCHANGED <<pc, result, error>>

\* one iteration of the loop of line 132
ProcessPage ==
    /\ pc = "pages"
    /\ pages # <<>>
    /\ UNCHANGED <<document_content, args, images_by_page, blocks_by_page, splitter,
                   remembered, restVars>>
    /\ LET page == Head(pages)
           page_text == PageText(blocks_by_page[page])
       IN \/ /\ page_text = <<>>
             /\ pages' = Tail(pages)
             /\ UNCHANGED <<pc, chunks, result, error, splitLog>>
          \/ /\ page_text # <<>>
             /\ \E pieces \in SplitResults(splitter, page_text, args) :
                    Emit(page, page_text, pieces)
          \/ /\ page_text # <<>>
             /\ splitter = "semantic"    \* the embedding collaborator raises
             /\ Fail("CollaboratorError")
             /\ UNCHANGED <<pages, chunks, splitLog>>

\* line 182
Return ==
    /\ pc = "pages"
    /\ pages = <<>>
    /\ pc' = "returned"
    /\ result' = [returned |-> TRUE, value |-> chunks]
    /\ UNCHANGED <<document_content, args, images_by_page, blocks_by_page, splitter,
                   pages, chunks, error, splitLog, remembered, restVars>>

Ids(cs) == [i \in 1..Len(cs) |-> cs[i].chunk_id]
TextsOf(cs) == [i \in 1..Len(cs) |-> cs[i].text]

\* the caller calls chunk() again on the same document; the locals of the new
\* call are unbound until the statements of the call bind them
Recall ==
    /\ pc \in {"returned", "raised"}
    /\ \E a \in Args :
        /\ args' = a
        /\ \/ remembered' = remembered
           \/ /\ ~remembered.set
              /\ pc = "returned"
              /\ args.strategy = "recursive"
              /\ remembered' = [set |-> TRUE, args |-> args, ids |-> Ids(result.value),
                                texts |-> TextsOf(result.value)]
    /\ pc' = "group"
    /\ images_by_page' = <<>>
    /\ blocks_by_page' = <<>>
    /\ splitter' = "none"
    /\ pages' = <<>>
    /\ result' = NoResult
    /\ error' = "none"
    /\ splitLog' = <<>>
    /\ UNCHANGED <<document_content, chunks, restVars>>

Next == GroupInputs \/ BuildSplitter \/ ProcessPage \/ Return

Spec == Init /\ [][Next]_vars

SpecSections == InitSections /\ [][Next]_vars

NextRepeat == GroupInputs \/ BuildSplitter \/ ProcessPage \/ Return \/ Recall

SpecRepeat == InitRepeat /\ [][NextRepeat]_vars

(***************************************************************************)
(* Two calls of chunk() on one Chunker, on two documents.  Each call has   *)
(* its own locals; the call that runs has them in the variables of the     *)
(* call, the call that waits has them in suspended.frame.  The calls take  *)
(* turns at any statement.                                                 *)
(***************************************************************************)
OtherDocument ==
    [text_blocks |-> <<[text |-> <<"a", ".", NBSP, "\n", "b">>, page |-> 2, section |-> <<>>],
                       [text |-> <<"a", ".", NBSP, "\n", "b">>, page |-> 1, section |-> <<>>]>>,
     images |-> <<>>]

OtherArgs ==
    [session_id |-> SessionId, document_id |-> <<"d", "2">>, strategy |-> "recursive",
     chunk_size |-> MaxSize, chunk_overlap |-> 0]

\* the locals of the call that runs
Frame ==
    [document_content |-> document_content, args |-> args, pc |-> pc,
     images_by_page |-> images_by_page, blocks_by_page |-> blocks_by_page,
     splitter |-> splitter, pages |-> pages, chunks |-> chunks, result |-> result,
     error |-> error, splitLog |-> splitLog]

KeptChunks(frame) == chunks

\* chunks is a local of the call (line 130), so a call finds its own list again
ResumedChunks(frame) == frame.chunks

InitTwo ==
    /\ PipelineIdle
    /\ ServicesInit
    /\ StoreIdle
    /\ document_content \in
          [text_blocks : SeqsUpTo({b \in TextBlocks : b.page >= 1 /\ b.section = <<>>},
                                  MaxBlocks),
           images : {<<>>}]
    /\ \E a \in Args :
          /\ args = a
          /\ suspended =
                [active |-> 1,
                 frame |-> [document_content |-> OtherDocument, args |-> OtherArgs,
                            pc |-> "group", images_by_page |-> <<>>,
                            blocks_by_page |-> <<>>, splitter |-> "none",
                            pages |-> <<>>, chunks |-> <<>>, result |-> NoResult,
                            error |-> "none", splitLog |-> <<>>],
                 given |-> <<document_content, OtherDocument>>]
    /\ pc = "group"
    /\ images_by_page = <<>>
    /\ blocks_by_page = <<>>
    /\ splitter = "none"
    /\ pages = <<>>
    /\ chunks = <<>>
    /\ result = NoResult
    /\ error = "none"
    /\ splitLog = <<>>
    /\ remembered = NothingRemembered

\* the call that runs waits and the other call goes on
Switch ==
    /\ suspended.active \in {1, 2}
    /\ suspended' = [active |-> 3 - suspended.active, frame |-> Frame,
                     given |-> suspended.given]
    /\ document_content' = suspended.frame.document_content
    /\ args' = suspended.frame.args
    /\ pc' = suspended.frame.pc
    /\ images_by_page' = suspended.frame.images_by_page
    /\ blocks_by_page' = suspended.frame.blocks_by_page
    /\ splitter' = suspended.frame.splitter
    /\ pages' = suspended.frame.pages
    /\ chunks' = ResumedChunks(suspended.frame)
    /\ result' = suspended.frame.result
    /\ error' = suspended.frame.error
    /\ splitLog' = suspended.frame.splitLog
    /\ UNCHANGED <<remembered, pipelineVars, serviceVars, storeVars>>

NextTwo == GroupInputs \/ BuildSplitter \/ ProcessPage \/ Return \/ Switch

SpecTwo == InitTwo /\ [][NextTwo]_vars

(***************************************************************************)
(* IngestionPipeline.run_full_pipeline.  What the collaborators do when    *)
(* they are called is given by the environment; calls lists the stages     *)
(* that were called, in order.                                             *)
(***************************************************************************)
\* the members of the enum LogCategory
LogCategory == {"SESSION", "UPLOAD", "SECURITY", "ERROR", "SYSTEM"}

\* evaluating LogCategory.<name> raises AttributeError when name is no member
IsMember(name) == name \in LogCategory

AllowedExtensions == {".pdf", ".docx", ".txt", ".md"}

Suffixes == AllowedExtensions \cup {".exe"}

Environments ==
    [exists : BOOLEAN, suffix : Suffixes, extracted : {"blocks", "nothing"},
     chunking : {"chunks", "nothing", "raises"}, embedding : {"vectors", "raises"},
     storing : BOOLEAN]

\* FileLoader.load_file: the return of line 48 stands after the if, not in it, so it
\* ends every call in which exists() does not raise; the handler returns the same
LoadFile(env) == [file_type |-> "None", content |-> "None"]

Returned(v, calls) == [raised |-> FALSE, value |-> v, calls |-> calls]

Raised(e, calls) == [raised |-> TRUE, value |-> e, calls |-> calls]

\* run_until_chunking
RunUntilChunking(env) ==
    IF ~IsMember("INGESTION")
    THEN \* line 51 raises in the try, and line 98 of the handler raises again
         Raised("AttributeError", <<>>)
    ELSE LET loaded == LoadFile(env)
             calls == <<"load_file">>
         IN IF loaded.file_type = "None" \/ loaded.content = "None"
            THEN Returned("None", calls)
            ELSE IF loaded.file_type \notin AllowedExtensions
            THEN Returned("None", calls)
            ELSE IF env.extracted = "nothing"
            THEN Returned("None", Append(calls, "extract"))
            ELSE Returned("DocumentContent", Append(calls, "extract"))

\* the handler of lines 161-163
ExceptHandler(calls) ==
    IF IsMember("INGESTION") THEN Returned("False", calls)
    ELSE Raised("AttributeError", calls)

\* lines 127-163, doc being what run_until_chunking gave
AfterRunUntilChunking(env, doc) ==
    IF doc.raised THEN ExceptHandler(doc.calls)
    ELSE IF doc.value = "None" THEN Returned("False", doc.calls)
    ELSE LET chunked == Append(doc.calls, "chunk")
             embedded == Append(chunked, "embed")
             stored == Append(embedded, "store_chunks")
         IN IF env.chunking = "raises" THEN ExceptHandler(chunked)
            ELSE IF ~IsMember("INGESTION") THEN ExceptHandler(chunked)
            ELSE IF env.chunking = "nothing" THEN Returned("False", chunked)
            ELSE IF env.embedding = "raises" THEN ExceptHandler(embedded)
            ELSE Returned(IF env.storing THEN "True" ELSE "False", stored)

\* no call of Chunker.chunk is going on
ChunkerIdle ==
    /\ document_content = [text_blocks |-> <<>>, images |-> <<>>]
    /\ args = [session_id |-> SessionId, document_id |-> DocumentId,
               strategy |-> "semantic", chunk_size |-> MaxSize, chunk_overlap |-> 0]
    /\ pc = "idle"
    /\ images_by_page = <<>>
    /\ blocks_by_page = <<>>
    /\ splitter = "none"
    /\ pages = <<>>
    /\ chunks = <<>>
    /\ result = NoResult
    /\ error = "none"
    /\ splitLog = <<>>
    /\ remembered = NothingRemembered

InitPipeline ==
    /\ ChunkerIdle
    /\ ServicesInit
    /\ StoreIdle
    /\ suspended = NoSecondCall
    /\ environment \in Environments
    /\ run = [pc |-> "idle", raised |-> FALSE, value |-> "None", calls |-> <<>>]

ChunkerVars ==
    <<document_content, args, pc, images_by_page, blocks_by_page, splitter, pages,
      chunks, result, error, splitLog, remembered>>

\* line 126
CallRunUntilChunking ==
    /\ run.pc = "idle"
    /\ LET doc == RunUntilChunking(environment)
       IN run' = [pc |-> "called", raised |-> doc.raised, value |-> doc.value,
                  calls |-> doc.calls]
    /\ UNCHANGED <<ChunkerVars, environment, serviceVars, suspended, storeVars>>

\* lines 127-163
Complete ==
    /\ run.pc = "called"
    /\ LET end == AfterRunUntilChunking(environment, run)
       IN run' = [pc |-> "done", raised |-> end.raised, value |-> end.value,
                  calls |-> end.calls]
    /\ UNCHANGED <<ChunkerVars, environment, serviceVars, suspended, storeVars>>

NextPipeline == CallRunUntilChunking \/ Complete

SpecPipeline == InitPipeline /\ [][NextPipeline]_vars

(***************************************************************************)
(* SessionManager.  A session id is a pair: <<"s", n>> is given by the     *)
(* caller, <<"g", n>> is the n-th value of uuid.uuid4(), <<>> is None.     *)
(* Time is counted in hours.  The directory of a session is not part of    *)
(* the state: _cleanup_session_directory is taken to succeed.              *)
(***************************************************************************)
MaxGenerated == 1
MaxDays == 2
MaxCount == 1

SESSION_EXPIRY_HOURS == 24

\* <<"x", 0>> stands for a string that is no UUID
UserIds == {<<"u", 1>>, <<"u", 2>>, <<"x", 0>>}

GivenSessionIds == {<<"s", 1>>, <<"x", 0>>}

KnownSessionIds == {<<"s", 1>>} \cup {<<"g", n>> : n \in 1..MaxGenerated}

\* validate_uuid: uuid.UUID(uuid_str) does not raise ValueError
ValidateUuid(uuid_str) == uuid_str # <<"x", 0>>

Remove(f, k) == [x \in DOMAIN f \ {k} |-> f[x]]

Put(f, k, v) == [x \in DOMAIN f \cup {k} |-> IF x = k THEN v ELSE f[x]]

Tables == [sessions |-> sessions, user_sessions |-> user_sessions]

KeepSession(t, session_id) == t

ForgetSessionOnly(t, session_id) ==
    [sessions |-> Remove(t.sessions, session_id), user_sessions |-> t.user_sessions]

\* expire_session
ExpireSession(t, session_id) ==
    IF session_id \notin DOMAIN t.sessions THEN t
    ELSE LET user_id == t.sessions[session_id].user_id
         IN [sessions |-> Remove(t.sessions, session_id),
             user_sessions |->
                 IF user_id \in DOMAIN t.user_sessions
                      /\ t.user_sessions[user_id] = session_id
                 THEN Remove(t.user_sessions, user_id)
                 ELSE t.user_sessions]

NeverPast(session, time) == FALSE

\* datetime.utcnow() > session["expires_at"]
IsPast(session, time) == time > session.expires_at

\* get_session: the tables it leaves and whether it returns a session
GetSession(t, session_id, time) ==
    IF ~ValidateUuid(session_id) THEN [tables |-> t, found |-> FALSE]
    ELSE IF session_id \notin DOMAIN t.sessions THEN [tables |-> t, found |-> FALSE]
    ELSE IF IsPast(t.sessions[session_id], time)
    THEN [tables |-> ExpireSession(t, session_id), found |-> FALSE]
    ELSE [tables |-> t, found |-> TRUE]

AnyCaller(session, user_id) == TRUE

\* session["user_id"] == user_id
OwnedBy(session, user_id) == session.user_id = user_id

\* the call op(user_id, session_id) ended: raised tells how, value is what it returned
\* or the exception, before is the tables as the call found them
Called(op, user_id, session_id, raised, value) ==
    last' = [op |-> op, user_id |-> user_id, session_id |-> session_id,
             raised |-> raised, value |-> value, before |-> Tables, at |-> now]

SetTables(t) ==
    /\ sessions' = t.sessions
    /\ user_sessions' = t.user_sessions

OutsideServices == <<ChunkerVars, pipelineVars, suspended, storeVars>>

InitSessions ==
    /\ ChunkerIdle
    /\ PipelineIdle
    /\ StoreIdle
    /\ suspended = NoSecondCall
    /\ ServicesInit

\* the body of create_session(user_id, session_id); session_id = None asks for a
\* new uuid4
Create(user_id, session_id) ==
          IF ~ValidateUuid(user_id)
          THEN /\ Called("create_session", user_id, session_id, TRUE, "ValueError")
               /\ UNCHANGED <<sessions, user_sessions, issued>>
          ELSE LET expired == IF user_id \in DOMAIN user_sessions
                              THEN ExpireSession(Tables, user_sessions[user_id])
                              ELSE Tables
                   new_session_id == IF session_id # <<>> THEN session_id
                                     ELSE <<"g", issued + 1>>
               IN IF session_id # <<>> /\ ~ValidateUuid(session_id)
                  THEN /\ SetTables(expired)
                       /\ Called("create_session", user_id, session_id, TRUE, "ValueError")
                       /\ UNCHANGED issued
                  ELSE /\ session_id = <<>> => issued < MaxGenerated
                       /\ issued' = IF session_id = <<>> THEN issued + 1 ELSE issued
                       /\ IF new_session_id \in DOMAIN expired.sessions
                          THEN /\ SetTables(expired)
                               /\ Called("create_session", user_id, session_id, TRUE,
                                         "ValueError")
                          ELSE /\ sessions' =
                                     Put(expired.sessions, new_session_id,
                                         [user_id |-> user_id, created_at |-> now,
                                          expires_at |-> now + SESSION_EXPIRY_HOURS,
                                          document_count |-> 0])
                               /\ user_sessions' =
                                     Put(expired.user_sessions, user_id, new_session_id)
                               /\ Called("create_session", user_id, session_id, FALSE,
                                         new_session_id)

\* create_session with any arguments
CreateSession ==
    /\ \E user_id \in UserIds, session_id \in GivenSessionIds \cup {<<>>} :
          Create(user_id, session_id)
    /\ UNCHANGED <<now, documents, OutsideServices>>

\* the session ids the callers ask about
AskedSessionIds == KnownSessionIds \cup {<<"x", 0>>}

\* get_session(session_id)
GetSessionCall ==
    /\ \E session_id \in AskedSessionIds :
          LET got == GetSession(Tables, session_id, now)
          IN /\ SetTables(got.tables)
             /\ Called("get_session", <<>>, session_id, FALSE, got.found)
    /\ UNCHANGED <<now, documents, issued, OutsideServices>>

\* session_exists(session_id)
SessionExists ==
    /\ \E session_id \in AskedSessionIds :
          LET got == GetSession(Tables, session_id, now)
          IN /\ SetTables(got.tables)
             /\ Called("session_exists", <<>>, session_id, FALSE, got.found)
    /\ UNCHANGED <<now, documents, issued, OutsideServices>>

\* validate_session_access(user_id, session_id)
ValidateSessionAccess ==
    /\ \E user_id \in UserIds, session_id \in AskedSessionIds :
          LET got == GetSession(Tables, session_id, now)
          IN /\ SetTables(got.tables)
             /\ Called("validate_session_access", user_id, session_id, FALSE,
                       got.found /\ OwnedBy(sessions[session_id], user_id))
    /\ UNCHANGED <<now, documents, issued, OutsideServices>>

NotIncremented(session) == session

\* session["document_count"] += 1
Incremented(session) == [session EXCEPT !.document_count = @ + 1]

\* increment_document_count(session_id)
IncrementDocumentCount ==
    /\ \E session_id \in AskedSessionIds :
          LET got == GetSession(Tables, session_id, now)
          IN /\ got.found => sessions[session_id].document_count < MaxCount
             /\ sessions' = IF got.found
                            THEN [sessions EXCEPT ![session_id] = Incremented(@)]
                            ELSE got.tables.sessions
             /\ user_sessions' = got.tables.user_sessions
             /\ Called("increment_document_count", <<>>, session_id, FALSE, got.found)
    /\ UNCHANGED <<now, documents, issued, OutsideServices>>

\* get_document_count(session_id)
GetDocumentCount ==
    /\ \E session_id \in AskedSessionIds :
          LET got == GetSession(Tables, session_id, now)
          IN /\ SetTables(got.tables)
             /\ Called("get_document_count", <<>>, session_id, FALSE,
                       IF got.found THEN sessions[session_id].document_count ELSE 0)
    /\ UNCHANGED <<now, documents, issued, OutsideServices>>

\* expire_session(session_id)
ExpireSessionCall ==
    /\ \E session_id \in AskedSessionIds :
          /\ SetTables(ExpireSession(Tables, session_id))
          /\ Called("expire_session", <<>>, session_id, FALSE, FALSE)
    /\ UNCHANGED <<now, documents, issued, OutsideServices>>

RECURSIVE ExpireAll(_, _)
ExpireAll(t, ids) ==
    IF ids = {} THEN t
    ELSE LET session_id == CHOOSE x \in ids : TRUE
         IN ExpireAll(ExpireSession(t, session_id), ids \ {session_id})

EverySession(t, time) == DOMAIN t.sessions

\* lines 156-159: the list expired
ExpiredIds(t, time) ==
    {session_id \in DOMAIN t.sessions : IsPast(t.sessions[session_id], time)}

\* cleanup_expired_sessions()
CleanupExpiredSessions ==
    /\ SetTables(ExpireAll(Tables, ExpiredIds(Tables, now)))
    /\ Called("cleanup_expired_sessions", <<>>, <<>>, FALSE, FALSE)
    /\ UNCHANGED <<now, documents, issued, OutsideServices>>

\* a day passes
Tick ==
    /\ now < MaxDays * SESSION_EXPIRY_HOURS
    /\ now' = now + SESSION_EXPIRY_HOURS
    /\ UNCHANGED <<sessions, user_sessions, documents, last, issued, OutsideServices>>

NextSessions ==
    \/ CreateSession
    \/ GetSessionCall
    \/ SessionExists
    \/ ValidateSessionAccess
    \/ IncrementDocumentCount
    \/ GetDocumentCount
    \/ ExpireSessionCall
    \/ CleanupExpiredSessions
    \/ Tick

SpecSessions == InitSessions /\ [][NextSessions]_vars

(***************************************************************************)
(* DocumentManager, which works on the module's one SessionManager.  A     *)
(* file is given by what happens to it: "ok" is stored, "bad_ext" fails    *)
(* validate_file, "too_large" fails the size check, "unreadable" makes     *)
(* file.read() raise.  The calls run one after the other.                  *)
(***************************************************************************)
MAX_FILES_PER_SESSION == 5

MaxDocuments == 6

\* the batches of files the callers upload
Batches ==
    {<<"ok">>, <<"ok", "ok", "ok">>, <<"bad_ext", "ok">>, <<"ok", "unreadable", "ok">>,
     <<"too_large", "ok">>}

\* the users who upload
Uploaders == {<<"u", 1>>, <<"u", 2>>}

\* len(self._session_documents.get(session_id, []))
DocumentsOf(docs, session_id) == IF session_id \in DOMAIN docs THEN docs[session_id] ELSE 0

NoLimit(current_count, files) == FALSE

\* line 81
OverLimit(current_count, files) == current_count + Len(files) > MAX_FILES_PER_SESSION

\* the loop of lines 86-136 over the files left, for a session that is in the tables;
\* log_error is called without its error argument in the handler, so an exception
\* in the try leaves process_upload as a TypeError
StoreAll(files, done) == [done EXCEPT !.successful = Len(files)]

RECURSIVE UploadLoop(_, _)
UploadLoop(files, done) ==
    IF files = <<>> THEN done
    ELSE LET file == Head(files)
         IN IF file = "bad_ext"
            THEN UploadLoop(Tail(files), [done EXCEPT !.errors = Append(@, "type")])
            ELSE IF file = "too_large"
            THEN UploadLoop(Tail(files), [done EXCEPT !.errors = Append(@, "size")])
            ELSE IF file = "unreadable"
            THEN [done EXCEPT !.raised = TRUE]
            ELSE UploadLoop(Tail(files), [done EXCEPT !.successful = @ + 1])

\* process_upload: what it returns and what it leaves, from the tables t, the
\* documents docs and the time
Upload(t, docs, time, user_id, session_id, files) ==
    LET exists == GetSession(t, session_id, time)
        Refused(why) == [tables |-> exists.tables, documents |-> docs, raised |-> FALSE,
                         successful |-> 0, errors |-> <<why>>]
    IN IF ~exists.found THEN Refused("session")
       ELSE IF ~OwnedBy(t.sessions[session_id], user_id) THEN Refused("access")
       ELSE IF OverLimit(t.sessions[session_id].document_count, files)
       THEN Refused("limit")
       ELSE LET done == UploadLoop(files, [raised |-> FALSE, successful |-> 0,
                                           errors |-> <<>>])
            IN [tables |-> [t EXCEPT !.sessions[session_id].document_count =
                                         @ + done.successful],
                documents |-> Put(docs, session_id,
                                  DocumentsOf(docs, session_id) + done.successful),
                raised |-> done.raised, successful |-> done.successful,
                errors |-> done.errors]

\* create_session(user_id, session_id) by a user who uploads, with the session id
\* the client chose
CreateUploadSession ==
    /\ \E user_id \in Uploaders : Create(user_id, <<"s", 1>>)
    /\ UNCHANGED <<now, documents, OutsideServices>>

\* process_upload(user_id, session_id, files)
ProcessUpload ==
    /\ \E user_id \in Uploaders, session_id \in KnownSessionIds, files \in Batches :
          LET end == Upload(Tables, documents, now, user_id, session_id, files)
          IN /\ DocumentsOf(end.documents, session_id) <= MaxDocuments
             /\ SetTables(end.tables)
             /\ documents' = end.documents
             /\ last' = [op |-> "process_upload", user_id |-> user_id,
                         session_id |-> session_id, files |-> files,
                         raised |-> end.raised,
                         value |-> [successful |-> end.successful, errors |-> end.errors],
                         before |-> Tables, documents_before |-> documents, at |-> now]
    /\ UNCHANGED <<now, issued, OutsideServices>>

\* check_session_file_limit(session_id)
CheckSessionFileLimit ==
    /\ \E session_id \in KnownSessionIds :
          LET got == GetSession(Tables, session_id, now)
              current_count == IF got.found THEN sessions[session_id].document_count ELSE 0
          IN /\ SetTables(got.tables)
             /\ Called("check_session_file_limit", <<>>, session_id, FALSE,
                       IF current_count >= MAX_FILES_PER_SESSION
                       THEN [can_upload |-> FALSE, error |-> "limit"]
                       ELSE [can_upload |-> TRUE, error |-> "None"])
    /\ UNCHANGED <<now, documents, issued, OutsideServices>>

NextUploads ==
    \/ CreateUploadSession
    \/ ProcessUpload
    \/ CheckSessionFileLimit
    \/ Tick

SpecUploads == InitSessions /\ [][NextUploads]_vars

(***************************************************************************)
(* QdrantRegistry.store_chunks.  A chunk is given by its chunk_id, the     *)
(* embeddings by their number; upsert tells what client.upsert does.       *)
(***************************************************************************)
MaxVectors == 3

ChunkIds == 1..MaxVectors

\* the lists of chunks handed to store_chunks: ids in ascending order
RECURSIVE Ascending(_)
Ascending(ids) ==
    IF ids = {} THEN <<>>
    ELSE LET least == CHOOSE x \in ids : \A y \in ids : x <= y
         IN <<least>> \o Ascending(ids \ {least})

ChunkLists == {Ascending(ids) : ids \in SUBSET ChunkIds}

\* log_error(message, error, user_id=None, session_id=None): a call that gives no
\* error raises TypeError
LogError(error_given) == IF error_given THEN "logged" ELSE "TypeError"

\* lines 54-56: log_error is called with the message alone
LengthsDiffer(chunk_list, embeddings, upsert, points) ==
    IF LogError(FALSE) = "TypeError"
    THEN [raised |-> TRUE, value |-> "TypeError", points |-> points]
    ELSE [raised |-> FALSE, value |-> "False", points |-> points]

\* store_chunks(chunks, embeddings) on a collection that holds points
StoreChunks(chunk_list, embeddings, upsert, points) ==
    IF Len(chunk_list) # embeddings
    THEN LengthsDiffer(chunk_list, embeddings, upsert, points)
    ELSE IF upsert = "raises"
    THEN \* lines 78-80: log_error is given the exception
         IF LogError(TRUE) = "TypeError"
         THEN [raised |-> TRUE, value |-> "TypeError", points |-> points]
         ELSE [raised |-> FALSE, value |-> "False", points |-> points]
    ELSE [raised |-> FALSE, value |-> "True",
          points |-> points \cup {chunk_list[i] : i \in DOMAIN chunk_list}]

InitRegistry ==
    /\ ChunkerIdle
    /\ PipelineIdle
    /\ ServicesInit
    /\ suspended = NoSecondCall
    /\ StoreIdle

\* a call of store_chunks
StoreChunksCall ==
    /\ \E chunk_list \in ChunkLists, embeddings \in 0..MaxVectors, upsert \in {"ok", "raises"} :
          LET end == StoreChunks(chunk_list, embeddings, upsert, registry.points)
          IN registry' = [points |-> end.points,
                          call |-> [op |-> "store_chunks", chunks |-> chunk_list,
                                    embeddings |-> embeddings, upsert |-> upsert,
                                    raised |-> end.raised, value |-> end.value,
                                    points_before |-> registry.points]]
    /\ UNCHANGED <<ChunkerVars, pipelineVars, serviceVars, suspended, uploads>>

NextRegistry == StoreChunksCall

SpecRegistry == InitRegistry /\ [][NextRegistry]_vars

(***************************************************************************)
(* Two calls of process_upload that take turns.  A call runs from its      *)
(* start, or from the await of line 94 at which it waits, up to its next   *)
(* await or its return; uploads[k] is the frame of call k while it waits.  *)
(***************************************************************************)
UploadCalls == {1, 2}

\* lines 86-91 repeated: the loop goes on up to the next file it has to read
RECURSIVE RunToAwait(_)
RunToAwait(frame) ==
    IF frame.left = <<>> THEN frame
    ELSE IF Head(frame.left) = "bad_ext"
    THEN RunToAwait([frame EXCEPT !.left = Tail(@), !.errors = Append(@, "type")])
    ELSE frame

\* the call of the frame goes on waiting at line 94, or returns at line 138
WaitOrReturn(k, frame) ==
    IF frame.left = <<>>
    THEN /\ uploads' = Remove(uploads, k)
         /\ last' = [op |-> "process_upload", user_id |-> frame.user_id,
                     session_id |-> frame.session_id, files |-> frame.files,
                     raised |-> FALSE,
                     value |-> [successful |-> frame.successful, errors |-> frame.errors]]
    ELSE /\ uploads' = Put(uploads, k, frame)
         /\ UNCHANGED last

\* lines 66-94: a call of process_upload starts and runs to its first await
BeginUpload ==
    /\ \E k \in UploadCalls \ DOMAIN uploads, user_id \in Uploaders, files \in Batches :
          LET session_id == <<"s", 1>>
              exists == GetSession(Tables, session_id, now)
              refused == \/ ~exists.found
                         \/ ~OwnedBy(sessions[session_id], user_id)
                         \/ OverLimit(sessions[session_id].document_count, files)
          IN /\ SetTables(exists.tables)
             /\ WaitOrReturn(k, IF refused
                                THEN [user_id |-> user_id, session_id |-> session_id,
                                      files |-> files, left |-> <<>>, successful |-> 0,
                                      errors |-> <<"refused">>]
                                ELSE RunToAwait([user_id |-> user_id,
                                                 session_id |-> session_id,
                                                 files |-> files, left |-> files,
                                                 successful |-> 0, errors |-> <<>>]))
    /\ UNCHANGED <<now, documents, issued, registry, ChunkerVars, pipelineVars, suspended>>

\* lines 94-136: file.read() of a waiting call ends and the call runs to its next
\* await or to its return
ReadDone ==
    /\ \E k \in DOMAIN uploads :
          LET frame == uploads[k]
              file == Head(frame.left)
              session_id == frame.session_id
              got == GetSession(Tables, session_id, now)
          IN \/ /\ file = "unreadable"    \* line 135 raises TypeError
                /\ uploads' = Remove(uploads, k)
                /\ last' = [op |-> "process_upload", user_id |-> frame.user_id,
                            session_id |-> session_id, files |-> frame.files,
                            raised |-> TRUE,
                            value |-> [successful |-> frame.successful,
                                       errors |-> frame.errors]]
                /\ UNCHANGED <<sessions, user_sessions, documents>>
             \/ /\ file = "too_large"
                /\ WaitOrReturn(k, RunToAwait([frame EXCEPT !.left = Tail(@),
                                                            !.errors = Append(@, "size")]))
                /\ UNCHANGED <<sessions, user_sessions, documents>>
             \/ /\ file = "ok"
                /\ documents' = Put(documents, session_id,
                                    DocumentsOf(documents, session_id) + 1)
                /\ sessions' = IF got.found
                               THEN [sessions EXCEPT ![session_id] = Incremented(@)]
                               ELSE got.tables.sessions
                /\ user_sessions' = got.tables.user_sessions
                /\ WaitOrReturn(k, RunToAwait([frame EXCEPT !.left = Tail(@),
                                                            !.successful = @ + 1]))
    /\ UNCHANGED <<now, issued, registry, ChunkerVars, pipelineVars, suspended>>

\* the session of the uploads is created, once
CreateWhileUploading ==
    /\ DOMAIN sessions = {}
    /\ \E user_id \in Uploaders : Create(user_id, <<"s", 1>>)
    /\ UNCHANGED <<now, documents, uploads, registry, ChunkerVars, pipelineVars, suspended>>

NextInterleaved == CreateWhileUploading \/ BeginUpload \/ ReadDone

SpecInterleaved == InitSessions /\ [][NextInterleaved]_vars

(***************************************************************************)
(* The properties.                                                         *)
(***************************************************************************)
Range(f) == {f[i] : i \in DOMAIN f}

OnPage(cs, p) == SelectSeq(cs, LAMBDA c : c.page = p)

IsBlank(text) == \A i \in DOMAIN text : IsSpace(text[i])

\* the pieces of a split_text call that are not empty after _normalize
Retained(pieces) == {i \in DOMAIN pieces : Normalize(pieces[i]) # <<>>}

\* C1: for every page of the result, the chunk_index values of its chunks are exactly
\* 0 .. k-1, k being the number of pieces of the page kept after normalization
C1_DenseIndexing ==
    \A e \in Range(splitLog) :
        pc \in {"pages", "returned"} =>
            {c.chunk_index : c \in Range(OnPage(chunks, e.page))}
                = 0..(Cardinality(Retained(e.pieces)) - 1)

\* C2: split_text is called once per page on the text of that page's blocks alone, and
\* every chunk is a normalized piece of the call made for its own page
C2_PageContainment ==
    /\ \A p \in DOMAIN blocks_by_page :
          /\ p >= 1
          /\ \A b \in Range(blocks_by_page[p]) :
                b.page = p /\ b \in Range(document_content.text_blocks)
    /\ \A i \in DOMAIN splitLog :
          /\ splitLog[i].page \in DOMAIN blocks_by_page
          /\ splitLog[i].text = PageText(blocks_by_page[splitLog[i].page])
          /\ \A j \in DOMAIN splitLog : splitLog[j].page = splitLog[i].page => i = j
    /\ \A c \in Range(chunks) \cup Range(result.value) :
          \E e \in Range(splitLog) :
              /\ e.page = c.page
              /\ c.chunk_index + 1 \in DOMAIN e.pieces
              /\ c.text = Normalize(e.pieces[c.chunk_index + 1])

C2_Witness ==
    /\ pc = "returned"
    /\ {c.page : c \in Range(result.value)} = {1, 2}
    /\ Len(blocks_by_page[1]) = 1

\* the records of the input images of page p, in input order
ImageRecordsOf(p) ==
    LET mine == SelectSeq(document_content.images, LAMBDA im : im.page = p)
    IN [i \in 1..Len(mine) |->
          [image_id |-> mine[i].image_url, session_id |-> mine[i].session_id,
           document_id |-> mine[i].document_id, page |-> p,
           image_path |-> mine[i].image_path]]

\* C3: every piece kept on page p becomes a chunk whose image_refs is the list of the
\* records of the input images of page p, in input order
C3_ImageRefs ==
    /\ \A c \in Range(chunks) : c.image_refs = ImageRecordsOf(c.page)
    /\ \A e \in Range(splitLog) : \A i \in Retained(e.pieces) :
          \E c \in Range(chunks) :
              /\ c.page = e.page
              /\ c.chunk_index = i - 1
              /\ c.image_refs = ImageRecordsOf(e.page)

Ordered(cs) ==
    \A i, j \in DOMAIN cs :
        i < j => \/ cs[i].page < cs[j].page
                 \/ cs[i].page = cs[j].page /\ cs[i].chunk_index < cs[j].chunk_index

\* C4: the chunks are in ascending order of page and, within a page, of chunk_index,
\* whatever the order of the text blocks in the input
C4_Ordered == pc \in {"pages", "returned"} => Ordered(chunks) /\ Ordered(result.value)

C4_Witness ==
    /\ pc = "returned"
    /\ Len(document_content.text_blocks) = 2
    /\ document_content.text_blocks[1].page = 2
    /\ document_content.text_blocks[2].page = 1
    /\ {c.page : c \in Range(result.value)} = {1, 2}

\* C5: the chunk_id values of one call are distinct, no two chunks share (page,
\* chunk_index), and chunk_id is the digest of session_id|document_id|page|chunk_index
C5_DistinctIds ==
    pc \in {"pages", "returned"} =>
        /\ \A i, j \in DOMAIN chunks :
              i # j => /\ chunks[i].chunk_id # chunks[j].chunk_id
                       /\ <<chunks[i].page, chunks[i].chunk_index>>
                            # <<chunks[j].page, chunks[j].chunk_index>>
        /\ \A c \in Range(chunks) :
              c.chunk_id = Sha256Hex(args.session_id \o <<"|">> \o args.document_id
                                       \o <<"|">> \o Str(c.page)
                                       \o <<"|">> \o Str(c.chunk_index))

C5_Witness ==
    /\ pc = "returned"
    /\ \E i, j \in DOMAIN result.value :
          /\ result.value[i].page # result.value[j].page
          /\ result.value[i].chunk_index = result.value[j].chunk_index

C7_NonEmptyText ==
    \A c \in Range(chunks) \cup Range(result.value) : c.text # <<>> /\ ~IsBlank(c.text)

C7_Witness ==
    /\ pc = "returned"
    /\ result.value # <<>>
    /\ \E e \in Range(splitLog) : \E i \in DOMAIN e.pieces : IsBlank(e.pieces[i])

\* C8: with a strategy other than "recursive" and "semantic" the call raises ValueError
\* with no splitter built, no split_text call, no page visited and no chunk
C8_UnknownStrategy ==
    args.strategy \notin {"recursive", "semantic"} =>
        /\ pc \in {"group", "build", "raised"}
        /\ pc = "raised" => error = "ValueError"
        /\ splitter = "none"
        /\ splitLog = <<>>
        /\ pages = <<>>
        /\ chunks = <<>>
        /\ result = NoResult

C8_Witness ==
    /\ args.strategy = "bogus"
    /\ pc = "raised"
    /\ error = "ValueError"
    /\ DOMAIN blocks_by_page = {1, 2}

\* C9: with chunk_overlap >= chunk_size the call raises a configuration error before
\* any page is visited and returns nothing
C9_RejectsOverlap ==
    args.chunk_overlap >= args.chunk_size =>
        /\ pc \in {"group", "build", "raised"}
        /\ pc = "raised" => error \in {"ValueError", "CollaboratorError"}
        /\ result = NoResult

\* C10: when split_text raises on a page the exception leaves the call: nothing is
\* returned, that page and the later ones give no chunk and no further split_text call,
\* and the splitter is still the semantic one
C10_SplitFailure ==
    (error = "CollaboratorError" /\ splitter # "none") =>
        /\ pc = "raised"
        /\ result = NoResult
        /\ splitter = "semantic"
        /\ args.strategy = "semantic"
        /\ pages # <<>>
        /\ \A e \in Range(splitLog) : e.page < Head(pages)
        /\ \A c \in Range(chunks) : c.page < Head(pages)

C10_Witness ==
    /\ pc = "raised"
    /\ error = "CollaboratorError"
    /\ splitter = "semantic"
    /\ chunks # <<>>
    /\ Len(pages) = 1

AllBlank(text_blocks) == \A b \in Range(text_blocks) : Normalize(b.text) = <<>>

\* C11 as stated: with a valid strategy, a call on a document that has no text block,
\* or whose blocks all normalize to empty text, ends by returning the empty list, and
\* split_text is never called on an empty page text
C11_EmptyDocument ==
    /\ (args.strategy \in {"recursive", "semantic"}
          /\ AllBlank(document_content.text_blocks)
          /\ pc \in {"returned", "raised"}) =>
            /\ pc = "returned"
            /\ result = [returned |-> TRUE, value |-> <<>>]
    /\ \A e \in Range(splitLog) : e.text # <<>>

\* C11 amended: once the splitter is built, a call on a document that has no text
\* block, or whose blocks all normalize to empty text, visits its pages without an
\* error and returns the empty list; a page whose blocks are all empty after
\* normalization gets no split_text call and no chunk, and split_text is never called
\* on an empty page text
C11_EmptyWhenBuilt ==
    /\ (splitter # "none" /\ AllBlank(document_content.text_blocks)) =>
          /\ pc \in {"pages", "returned"}
          /\ error = "none"
          /\ chunks = <<>>
          /\ splitLog = <<>>
          /\ pc = "returned" => result = [returned |-> TRUE, value |-> <<>>]
    /\ \A p \in DOMAIN blocks_by_page :
          AllBlank(blocks_by_page[p]) =>
              /\ \A e \in Range(splitLog) : e.page # p
              /\ \A c \in Range(chunks) \cup Range(result.value) : c.page # p
    /\ \A e \in Range(splitLog) : e.text # <<>>

C11_Witness ==
    /\ pc = "returned"
    /\ result = [returned |-> TRUE, value |-> <<>>]
    /\ DOMAIN blocks_by_page = {1, 2}
    /\ AllBlank(document_content.text_blocks)

\* C12: a text block or an image whose page is <= 0 is in no group; every chunk has
\* page >= 1 and comes from a split_text call on the text of the blocks of its own
\* page, so a document whose only non-blank blocks have page <= 0 gives no chunk; every
\* image record kept for a page, and every record in a chunk, has page >= 1
C12_Unplaced ==
    /\ \A c \in Range(chunks) \cup Range(result.value) :
          /\ c.page >= 1
          /\ \A i \in DOMAIN c.image_refs : c.image_refs[i].page >= 1
    /\ \A p \in DOMAIN blocks_by_page :
          p >= 1 /\ \A b \in Range(blocks_by_page[p]) : b.page >= 1
    /\ \A p \in DOMAIN images_by_page :
          p >= 1 /\ \A r \in Range(images_by_page[p]) : r.page >= 1
    /\ \A e \in Range(splitLog) :
          /\ e.page >= 1
          /\ e.text = PageText(SelectSeq(document_content.text_blocks,
                                         LAMBDA tb : tb.page = e.page))
    /\ (\A b \in Range(document_content.text_blocks) :
            b.page >= 1 => Normalize(b.text) = <<>>)
          => chunks = <<>> /\ splitLog = <<>> /\ result.value = <<>>

C12_Witness ==
    /\ pc = "returned"
    /\ result.value # <<>>
    /\ \E b \in Range(document_content.text_blocks) :
          b.page <= 0 /\ Normalize(b.text) # <<>> /\ b.section # <<>>
    /\ \E im \in Range(document_content.images) : im.page <= 0

\* C13: under strategy "recursive" with chunk_size > chunk_overlap >= 0, every piece
\* split_text returns and every chunk's text has at most chunk_size + chunk_overlap
\* characters, the page text holding the "## section" marker lines
C13_SizeBound ==
    (args.strategy = "recursive" /\ args.chunk_size > args.chunk_overlap) =>
        /\ \A c \in Range(chunks) \cup Range(result.value) :
              Len(c.text) <= args.chunk_size + args.chunk_overlap
        /\ \A e \in Range(splitLog) : \A i \in DOMAIN e.pieces :
              Len(e.pieces[i]) <= args.chunk_size + args.chunk_overlap

C13_Witness ==
    /\ pc = "returned"
    /\ args.strategy = "recursive"
    /\ args.chunk_size = 2
    /\ args.chunk_overlap = 1
    /\ \E c \in Range(result.value) : Len(c.text) = 2
    /\ \E e \in Range(splitLog) :
          /\ Len(e.text) > args.chunk_size + args.chunk_overlap
          /\ SubSeq(e.text, 1, 3) = <<"#", "#", " ">>

\* the normalized section label of a block; <<>> when it has none
LabelOf(b) == IF b.section # <<>> THEN Normalize(b.section) ELSE <<>>

\* block k of the page is not blank, has a label, and the label is not the one of the
\* last labelled non-blank block before it on the page
MarkerDue(page_blocks, k) ==
    LET labelled == {j \in 1..(k - 1) : /\ Normalize(page_blocks[j].text) # <<>>
                                         /\ LabelOf(page_blocks[j]) # <<>>}
        prev == IF labelled = {} THEN <<>>
                ELSE LabelOf(page_blocks[CHOOSE j \in labelled : \A i \in labelled : i <= j])
    IN /\ Normalize(page_blocks[k].text) # <<>>
       /\ LabelOf(page_blocks[k]) # <<>>
       /\ LabelOf(page_blocks[k]) # prev

RECURSIVE Concat(_)
Concat(seqs) == IF seqs = <<>> THEN <<>> ELSE Head(seqs) \o Concat(Tail(seqs))

\* what the blocks of a page contribute, block by block
MarkedParts(page_blocks) ==
    Concat([k \in 1..Len(page_blocks) |->
              IF Normalize(page_blocks[k].text) = <<>> THEN <<>>
              ELSE (IF MarkerDue(page_blocks, k)
                    THEN <<(<<"#", "#", " ">> \o LabelOf(page_blocks[k]))>>
                    ELSE <<>>) \o <<Normalize(page_blocks[k].text)>>])

\* C14: the text of a page given to split_text is the text of its blocks in input
\* order, a marker line "## label" standing immediately before the text of every block
\* whose label differs from the label emitted last on that page (none at the start of
\* the page); a block with an empty normalized text gives neither marker nor text
C14_SectionMarkers ==
    \A e \in Range(splitLog) :
        e.text = Strip(Join(MarkedParts(SelectSeq(document_content.text_blocks,
                                                  LAMBDA tb : tb.page = e.page)),
                            <<"\n", "\n">>))

C14_Witness ==
    /\ pc = "returned"
    /\ result.value # <<>>
    /\ Len(splitLog) = 1
    /\ Len(blocks_by_page[splitLog[1].page]) = 2
    /\ LET bs == blocks_by_page[splitLog[1].page]
       IN /\ bs[1].section = <<"A">> /\ Normalize(bs[1].text) = <<>>
          /\ bs[2].section = <<"A">> /\ Normalize(bs[2].text) # <<>>
          /\ SubSeq(splitLog[1].text, 1, 4) = <<"#", "#", " ", "A">>

\* C15: a finished run of run_full_pipeline in which chunking gave no chunk (it raised,
\* returned none, or was not reached) has returned False, not raised, and has called
\* neither embed nor store_chunks; store_chunks is called only after load, extraction,
\* chunking and embedding succeeded, in that order
C15_ReportsFailure ==
    run.pc = "done" =>
        /\ ~("chunk" \in Range(run.calls) /\ environment.chunking = "chunks") =>
              /\ ~run.raised
              /\ run.value = "False"
              /\ "embed" \notin Range(run.calls)
              /\ "store_chunks" \notin Range(run.calls)
        /\ "store_chunks" \in Range(run.calls) =>
              /\ run.calls = <<"load_file", "extract", "chunk", "embed", "store_chunks">>
              /\ environment.chunking = "chunks"
              /\ environment.embedding = "vectors"

RECURSIVE ChunksOfPages(_, _, _)
\* the chunks of the pages ps of document d under "recursive", page after page
ChunksOfPages(d, a, ps) ==
    IF ps = <<>> THEN <<>>
    ELSE LET p == Head(ps)
             text == PageText(SelectSeq(d.text_blocks, LAMBDA tb : tb.page = p))
             here == IF text = <<>> THEN <<>>
                     ELSE NewChunks(RecursiveSplit(text, a.chunk_size, a.chunk_overlap),
                                    p, <<>>, a)
         IN here \o ChunksOfPages(d, a, Tail(ps))

\* how a call with strategy "recursive" on the image-free document d ends when no
\* other call runs
Alone(d, a) ==
    IF a.chunk_overlap > a.chunk_size
    THEN [pc |-> "raised", result |-> NoResult]
    ELSE [pc |-> "returned",
          result |-> [returned |-> TRUE,
                      value |-> ChunksOfPages(d, a, SortedSeq({b.page : b \in Range(d.text_blocks)}))]]

\* the call frame f, working on the document given to it as d, is as the claim says
AsAlone(f, d) ==
    /\ f.document_content = d
    /\ (f.args.strategy = "recursive" /\ f.pc \in {"returned", "raised"}) =>
          /\ f.pc = Alone(d, f.args).pc
          /\ f.result = Alone(d, f.args).result
    /\ \A e \in Range(f.splitLog) :
          e.text = PageText(SelectSeq(d.text_blocks, LAMBDA tb : tb.page = e.page))
    /\ \A c \in Range(f.chunks) :
          c.document_id = f.args.document_id /\ \E e \in Range(f.splitLog) : e.page = c.page

\* C16: of two calls on two documents that take turns at any statement, each leaves
\* its document as it was given, and each ends as it ends when it runs alone: a
\* "recursive" call returns the same chunks or raises alike, and under any strategy a
\* call splits only the page texts of its own document and holds only its own chunks
C16_NoSharedState ==
    suspended.active \in {1, 2} =>
        /\ AsAlone(Frame, suspended.given[suspended.active])
        /\ AsAlone(suspended.frame, suspended.given[3 - suspended.active])

C16_Witness ==
    /\ suspended.active = 1
    /\ pc = "returned"
    /\ args.strategy = "recursive"
    /\ Len(result.value) >= 2
    /\ document_content # OtherDocument
    /\ suspended.frame.pc = "pages"
    /\ Len(suspended.frame.pages) = 1
    /\ suspended.frame.chunks # <<>>

\* the session of the call last was in the tables, not expired, when the call began
WasLive(call) == GetSession(call.before, call.session_id, call.at).found

\* the document count the call last found for its session
CountBefore(call) == call.before.sessions[call.session_id].document_count

\* C17: no session ever counts more than MAX_FILES_PER_SESSION documents; a call of
\* process_upload by the owner of a live session whose batch would take the count past
\* the limit returns no document and the one error of the limit, and stores and counts
\* nothing; any other call stores and counts exactly the documents it returns; and
\* check_session_file_limit says (False, limit error) exactly when the count is at
\* the limit
C17_FileLimit ==
    /\ \A session_id \in DOMAIN sessions :
          sessions[session_id].document_count <= MAX_FILES_PER_SESSION
    /\ last.op = "process_upload" =>
          LET stored == DocumentsOf(documents, last.session_id)
                          - DocumentsOf(last.documents_before, last.session_id)
          IN /\ stored = last.value.successful
             /\ (WasLive(last) /\ last.before.sessions[last.session_id].user_id = last.user_id) =>
                  IF CountBefore(last) + Len(last.files) > MAX_FILES_PER_SESSION
                  THEN /\ ~last.raised
                       /\ last.value = [successful |-> 0, errors |-> <<"limit">>]
                       /\ stored = 0
                       /\ Tables = last.before
                  ELSE /\ sessions[last.session_id].document_count
                            = CountBefore(last) + last.value.successful
                       /\ "limit" \notin Range(last.value.errors)
    /\ last.op = "check_session_file_limit" =>
          LET count == IF last.session_id \in DOMAIN sessions
                       THEN sessions[last.session_id].document_count ELSE 0
          IN last.value = IF count >= MAX_FILES_PER_SESSION
                          THEN [can_upload |-> FALSE, error |-> "limit"]
                          ELSE [can_upload |-> TRUE, error |-> "None"]

C17_Witness ==
    /\ last.op = "process_upload"
    /\ last.value = [successful |-> 0, errors |-> <<"limit">>]
    /\ Len(last.files) = 3
    /\ last.session_id \in DOMAIN sessions
    /\ sessions[last.session_id].document_count = 4
    /\ DocumentsOf(documents, last.session_id) = 4

(***************************************************************************)
(* SessionManager.create_session and the single session of a user.         *)
(***************************************************************************)
\* the sessions of the table that user_id created
OwnedSessions(t, user_id) ==
    {session_id \in DOMAIN t.sessions : t.sessions[session_id].user_id = user_id}

\* the last call was create_session and it returned an id
Created == last.op = "create_session" /\ ~last.raised

\* the user of the last call had a session when the call began
HadSession == last.user_id \in DOMAIN last.before.user_sessions

OldSessionId == last.before.user_sessions[last.user_id]

\* C18 as stated: after a successful create_session(user) get_session does not
\* return a session for the id of the session the user had before
C18_OldIdGone ==
    (Created /\ HadSession) => ~GetSession(Tables, OldSessionId, last.at).found

\* C18: a user owns at most one session and user_sessions names it; after a
\* successful create_session(user) the returned id names a fresh session, which is
\* the only session of the user and the one user_sessions gives for the user; the
\* id of the session the user had before is absent unless it was given again as
\* session_id, and then it names the fresh session; the sessions of other users are
\* as they were; a given session_id is the id returned
C18_OneSessionPerUser ==
    /\ \A user_id \in UserIds :
          /\ Cardinality(OwnedSessions(Tables, user_id)) <= 1
          /\ OwnedSessions(Tables, user_id) =
                IF user_id \in DOMAIN user_sessions THEN {user_sessions[user_id]} ELSE {}
    /\ Created =>
          /\ last.value \in DOMAIN sessions
          /\ sessions[last.value] =
                [user_id |-> last.user_id, created_at |-> last.at,
                 expires_at |-> last.at + SESSION_EXPIRY_HOURS, document_count |-> 0]
          /\ OwnedSessions(Tables, last.user_id) = {last.value}
          /\ user_sessions[last.user_id] = last.value
          /\ last.session_id # <<>> => last.value = last.session_id
          /\ (HadSession /\ OldSessionId # last.value) =>
                /\ OldSessionId \notin DOMAIN sessions
                /\ ~GetSession(Tables, OldSessionId, now).found
          /\ \A session_id \in DOMAIN last.before.sessions :
                last.before.sessions[session_id].user_id # last.user_id =>
                   /\ session_id \in DOMAIN sessions
                   /\ sessions[session_id] = last.before.sessions[session_id]

\* a user who had a generated session created one with a given id, which is now
\* the only session
C18_Witness ==
    /\ Created
    /\ HadSession
    /\ last.session_id = <<"s", 1>>
    /\ last.value = <<"s", 1>>
    /\ OldSessionId = <<"g", 1>>
    /\ <<"g", 1>> \notin DOMAIN sessions
    /\ Cardinality(DOMAIN sessions) = 1

(***************************************************************************)
(* Expiry by time.                                                         *)
(***************************************************************************)
Lookups == {"get_session", "session_exists", "validate_session_access",
            "get_document_count"}

\* what a lookup returns for an id that has no session: None is FALSE here
AbsentValue(op) == IF op = "get_document_count" THEN 0 ELSE FALSE

\* the call found a session under its id and the time of the call was past its
\* expires_at
FoundPast(call) ==
    /\ call.session_id \in DOMAIN call.before.sessions
    /\ call.at > call.before.sessions[call.session_id].expires_at

FoundNone(call) == call.session_id \notin DOMAIN call.before.sessions

\* no table has the id
Forgotten(session_id) ==
    /\ session_id \notin DOMAIN sessions
    /\ \A user_id \in DOMAIN user_sessions : user_sessions[user_id] # session_id

\* after the lookup of the last call the id is absent and the call said so
TreatedAsAbsent ==
    (last.op \in Lookups /\ (FoundPast(last) \/ FoundNone(last))) =>
        /\ ~last.raised
        /\ last.value = AbsentValue(last.op)
        /\ Forgotten(last.session_id)
        /\ \A session_id \in DOMAIN last.before.sessions \ {last.session_id} :
              /\ session_id \in DOMAIN sessions
              /\ sessions[session_id] = last.before.sessions[session_id]

\* an id that has no session gets one only by a create_session that returns it
AbsentUntilCreated ==
    \A session_id \in KnownSessionIds :
        (session_id \notin DOMAIN sessions /\ session_id \in DOMAIN sessions') =>
            /\ last'.op = "create_session"
            /\ ~last'.raised
            /\ last'.value = session_id

FoundLive(call) ==
    /\ call.session_id \in DOMAIN call.before.sessions
    /\ call.at <= call.before.sessions[call.session_id].expires_at

\* the session the call found was created by the user of the call
FoundOwn(call) ==
    call.before.sessions[call.session_id].user_id = call.user_id

\* C20: validate_session_access(user_id, session_id) returns True exactly when
\* the session table has session_id, the time is not past its expires_at and its
\* user_id is the user_id of the call; when the session is there and not past, the
\* call leaves both tables as they were, so for another user it returns False and
\* the session is unchanged
C20_AccessOnlyForOwner ==
    last.op = "validate_session_access" =>
        /\ ~last.raised
        /\ last.value = (FoundLive(last) /\ FoundOwn(last))
        /\ FoundLive(last) => Tables = last.before
        /\ (FoundLive(last) /\ ~FoundOwn(last)) =>
              /\ last.value = FALSE
              /\ sessions[last.session_id] = last.before.sessions[last.session_id]

\* a user with a valid id asked for the live session of another user
C20_Witness ==
    /\ last.op = "validate_session_access"
    /\ FoundLive(last)
    /\ last.user_id = <<"u", 2>>
    /\ last.before.sessions[last.session_id].user_id = <<"u", 1>>
    /\ last.value = FALSE
    /\ last.session_id \in DOMAIN sessions
    /\ sessions[last.session_id].user_id = <<"u", 1>>

(***************************************************************************)
(* The document count of a session.                                        *)
(***************************************************************************)
\* what get_document_count(session_id) returns on the tables t at the time
CountAt(t, session_id, time) ==
    IF GetSession(t, session_id, time).found
    THEN t.sessions[session_id].document_count
    ELSE 0

\* the sessions other than that of the last call are as the call found them, and
\* no session was added
OthersAsBefore ==
    /\ DOMAIN sessions \ {last.session_id} = DOMAIN last.before.sessions \ {last.session_id}
    /\ \A session_id \in DOMAIN sessions \ {last.session_id} :
          sessions[session_id] = last.before.sessions[session_id]

\* C21: the session a create_session has just stored has document_count 0;
\* increment_document_count on a session that is there and not past its expires_at
\* makes get_document_count return one more than before, changes nothing else of
\* the session and leaves every other session and the user-to-session table as they
\* were; on an id without a session, or with a session past its expires_at, it
\* raises no count: every session left is as it was
C21_CountsByOne ==
    /\ Created =>
          /\ sessions[last.value].document_count = 0
          /\ CountAt(Tables, last.value, last.at) = 0
    /\ last.op = "increment_document_count" =>
          /\ ~last.raised
          /\ OthersAsBefore
          /\ IF FoundLive(last)
             THEN /\ CountAt(Tables, last.session_id, last.at)
                        = CountAt(last.before, last.session_id, last.at) + 1
                  /\ sessions[last.session_id] =
                        [last.before.sessions[last.session_id] EXCEPT
                            !.document_count = @ + 1]
                  /\ user_sessions = last.before.user_sessions
             ELSE /\ last.session_id \notin DOMAIN sessions
                  /\ \A session_id \in DOMAIN sessions :
                        CountAt(Tables, session_id, last.at)
                            = CountAt(last.before, session_id, last.at)

\* increment_document_count was called for a live session while another user had
\* a session too
C21_Witness ==
    /\ last.op = "increment_document_count"
    /\ FoundLive(last)
    /\ sessions[last.session_id].document_count = 1
    /\ Cardinality(DOMAIN sessions) = 2

(***************************************************************************)
(* cleanup_expired_sessions.                                               *)
(***************************************************************************)
\* the sessions the call found whose expires_at was before the time of the call
PastOf(call) ==
    {session_id \in DOMAIN call.before.sessions :
        call.at > call.before.sessions[session_id].expires_at}

UploadRefusedEntry ==
    /\ last.op = "process_upload"
    /\ ~(FoundLive(last) /\ FoundOwn(last))

UploadLoopDone ==
    /\ last.op = "process_upload"
    /\ FoundLive(last)
    /\ FoundOwn(last)
    /\ last.before.sessions[last.session_id].document_count + Len(last.files)
          <= MAX_FILES_PER_SESSION
    /\ \A i \in DOMAIN last.files : last.files[i] # "unreadable"

Refusals == {"bad_ext", "too_large"}

\* the error of a file that is not stored
ErrorOf(file) == IF file = "bad_ext" THEN "type" ELSE "size"

\* one error for each file of the batch that is not stored, in the order of the batch
ErrorsOf(files) ==
    LET refused == SelectSeq(files, LAMBDA file : file \in Refusals)
    IN [i \in 1..Len(refused) |-> ErrorOf(refused[i])]

Stored(files) == Cardinality({i \in DOMAIN files : files[i] = "ok"})

Loadable(env) == env.exists /\ env.suffix \in AllowedExtensions

\* C25: once run_until_chunking has been called on a file that exists and has an
\* allowed extension, load_file has given the file type and the content of the
\* file and the run has gone on to the extraction of its text
C25_LoadsSupportedFile ==
    (run.pc # "idle" /\ Loadable(environment)) =>
        /\ LoadFile(environment).file_type = environment.suffix
        /\ LoadFile(environment).content # "None"
        /\ "extract" \in Range(run.calls)

(***************************************************************************)
(* QdrantRegistry.store_chunks with lists of different lengths.            *)
(***************************************************************************)
\* C26: store_chunks called with a number of embeddings that differs from the
\* number of chunks returns False, does not raise and leaves the points of the
\* collection as they were
C26_MismatchReturnsFalse ==
    (registry.call.op = "store_chunks"
        /\ Len(registry.call.chunks) # registry.call.embeddings) =>
            /\ ~registry.call.raised
            /\ registry.call.value = "False"
            /\ registry.points = registry.call.points_before

(***************************************************************************)
(* The file limit when calls of process_upload interleave.                 *)
(***************************************************************************)
\* C27: whatever the order in which two calls of process_upload take their steps,
\* no session has a document_count above MAX_FILES_PER_SESSION and the
\* DocumentManager holds at most MAX_FILES_PER_SESSION documents for a session id
C27_LimitWhenInterleaved ==
    \A session_id \in KnownSessionIds :
        /\ session_id \in DOMAIN sessions =>
              sessions[session_id].document_count <= MAX_FILES_PER_SESSION
        /\ DocumentsOf(documents, session_id) <= MAX_FILES_PER_SESSION

(***************************************************************************)
(* create_session that raises.                                             *)
(***************************************************************************)
\* C28: after a create_session that raised ValueError the session table and the
\* user-to-session table are what they were when the call began
C28_FailedCreateChangesNothing ==
    (last.op = "create_session" /\ last.raised) =>
        /\ last.value = "ValueError"
        /\ Tables = last.before

(***************************************************************************)
(* The two tables of SessionManager.                                       *)
(***************************************************************************)
\* C29: every entry of the user-to-session table names a session that is in the
\* session table and was created by that user, and every session of the session
\* table is the one the entry of its user names
C29_TablesAgree ==
    /\ \A user_id \in DOMAIN user_sessions :
          /\ user_sessions[user_id] \in DOMAIN sessions
          /\ sessions[user_sessions[user_id]].user_id = user_id
    /\ \A session_id \in DOMAIN sessions :
          /\ sessions[session_id].user_id \in DOMAIN user_sessions
          /\ user_sessions[sessions[session_id].user_id] = session_id

\* expire_session removed one of two sessions: one session and one entry are left
C29_Witness ==
    /\ last.op = "expire_session"
    /\ last.session_id \in DOMAIN last.before.sessions
    /\ Cardinality(DOMAIN last.before.sessions) = 2
    /\ Cardinality(DOMAIN sessions) = 1
    /\ Cardinality(DOMAIN user_sessions) = 1

(***************************************************************************)
(* The documents of the DocumentManager and the counts of the sessions.    *)
(***************************************************************************)
\* C30: the document_count of every session of the session table is the number of
\* document ids the DocumentManager holds for its id, and the DocumentManager holds
\* no document id for an id that has no session
C30_DocumentsFollowSessions ==
    \A session_id \in KnownSessionIds :
        IF session_id \in DOMAIN sessions
        THEN sessions[session_id].document_count = DocumentsOf(documents, session_id)
        ELSE DocumentsOf(documents, session_id) = 0


====
